---- MODULE Spec2Model ----
(***************************************************************************)
(* The virtual descriptor table of chromeapps/ssh_client/src/file_system.cc *)
(* (class FileSystem): the stream map, the path-handler registry, select,  *)
(* the monitor (mutex_ + cond_) and the completion callbacks, as a state   *)
(* machine over application threads and the main (callback) thread.        *)
(*                                                                         *)
(* A call that holds mutex_ from entry to return is one action.  A call    *)
(* that waits on cond_ is cut at its waits.  OnOpen takes no lock and is   *)
(* cut at its stores.                                                      *)
(***************************************************************************)
EXTENDS Integers, FiniteSets, Sequences, TLC

\* ------------------------------------------------------------- bounds
\* Largest descriptor the model lets an allocation hand out.
MaxFd == 4

\* First descriptor an allocation may return (declared in file_system.h).
kFileIDOffset == 3

Threads == {"t1", "t2"}

\* The threads that call select and mkdir; the others make the table calls
\* that run meanwhile.
Waiters == {"t1"}

\* ------------------------------------------------------------- values
\* A null FileStream*: the mark of a reserved slot.
NULL == [kind |-> "NULL", res |-> 0, fd |-> 0]

\* (FileStream*)-1
kBadFileStream == [kind |-> "BAD", res |-> 0, fd |-> 0]

\* new JsFile(fd, ...): the three standard streams of the constructor.
JsFile(fd) == [kind |-> "js", res |-> fd, fd |-> fd]

\* new TCPSocket(fd, O_RDWR)
TCPSocket(fd) == [kind |-> "tcp", res |-> fd, fd |-> fd]

\* The paths the model opens: a device stub, the persistent file that
\* OnOpen registers, and a path nobody registers.
DevNull == "/dev/null"
KnownHosts == "/.ssh/known_hosts"
Missing == "/missing"
PathArgs == {DevNull, KnownHosts, Missing}

\* The stream a path handler produces for (fd, path).
HandlerStream(fd, path) == [kind |-> "file", res |-> fd, fd |-> fd]

\* A handler whose open completes only through a callback: the caller waits
\* on cond_ inside the handler, with mutex_ released.
HandlerBlocks(path) == path = KnownHosts

\* stream->dup(newfd): a new handle on the same resource, owned by newfd.
StreamDup(stream, newfd) == [stream EXCEPT !.fd = newfd]

\* Descriptors an allocation of the model can return.
AllocFds == kFileIDOffset .. MaxFd

\* Descriptors the calls of the model are made on: a standard stream and
\* the allocated range.  dup2 and connect take their target in AllocFds.
FdArgs == {0} \cup AllocFds

VARIABLES
  streams_,         \* FileStreamMap: fd -> stream (NULL = reserved)
  paths_,           \* PathHandlerMap: the registered paths
  ppfs_,            \* the storage handle, or "NULL"
  fs_initialized_,  \* storage open has completed
  mutex_,           \* holder of mutex_: "none" or a thread
  pc,               \* where each application thread is
  loc,              \* the locals of the call each thread is in
  cb,               \* the main thread: the callback it runs and what is scheduled
  ready,            \* readiness bits the backends currently report
  ndebug,           \* the build: TRUE when assert() compiles to nothing
  halted,           \* "no", or how the process died: "abort" (assert), "segv"
  last,             \* the most recent return of a call
  hosts_,           \* HostMap: name -> address
  addrs_,           \* AddressMap: address -> name
  first_unused_addr_  \* the next synthetic address

\* The host address table.
netvars == <<hosts_, addrs_, first_unused_addr_>>

vars == <<streams_, paths_, ppfs_, fs_initialized_, mutex_, pc, loc, cb,
          ready, ndebug, halted, last, netvars>>

\* ------------------------------------------------------ the stream map
IsKnowDescriptor(fd) == fd \in DOMAIN streams_

GetStream(fd) == IF fd \in DOMAIN streams_ THEN streams_[fd] ELSE NULL

RECURSIVE FirstUnusedFrom(_)
FirstUnusedFrom(fd) == IF IsKnowDescriptor(fd) THEN FirstUnusedFrom(fd + 1) ELSE fd

\* A search that forgets the offset.
FirstUnusedFromZero == FirstUnusedFrom(0)

GetFirstUnusedDescriptor == FirstUnusedFrom(kFileIDOffset)

\* The map and the fate of the process while a call runs: r = [tbl, halt].
Run0 == [tbl |-> streams_, halt |-> "no"]

Put(tbl, fd, stream) ==
  [x \in DOMAIN tbl \cup {fd} |-> IF x = fd THEN stream ELSE tbl[x]]

Erase(tbl, fd) == [x \in DOMAIN tbl \ {fd} |-> tbl[x]]

\* assert(streams_.find(fd) == streams_.end() || !streams_.find(fd)->second)
AddPre(tbl, fd) == fd \notin DOMAIN tbl \/ tbl[fd] = NULL

AddFileStream(r, fd, stream) ==
  IF r.halt # "no" THEN r
  ELSE IF ~AddPre(r.tbl, fd) /\ ~ndebug THEN [r EXCEPT !.halt = "abort"]
  ELSE [r EXCEPT !.tbl = Put(r.tbl, fd, stream)]

RemoveFileStream(r, fd) ==
  IF r.halt # "no" THEN r
  ELSE IF fd \notin DOMAIN r.tbl /\ ~ndebug THEN [r EXCEPT !.halt = "abort"]
  ELSE [r EXCEPT !.tbl = Erase(r.tbl, fd)]

\* A test that forgets the null stream.
IsRealNoNull(stream) == stream # kBadFileStream

\* stream && stream != kBadFileStream
IsReal(stream) == stream # NULL /\ stream # kBadFileStream

\* ------------------------------------------------------------- threads
NoSel == [nfds |-> 0, rd |-> {}, wr |-> {}, ex |-> {}, tmo |-> "none"]

LocIdle == [fd |-> 0, path |-> "", sel |-> NoSel, result |-> "none"]

Sleeping == {"select_sleep", "mkdir_sleep_init", "mkdir_sleep_result"}

\* The state a thread waiting on cond_ is in once it has been woken: it
\* resumes when it has mutex_ again.
Woken(p) ==
  CASE p = "select_sleep" -> "select_woken"
    [] p = "mkdir_sleep_init" -> "mkdir_woken_init"
    [] p = "mkdir_sleep_result" -> "mkdir_woken_result"
    [] OTHER -> p

\* cond_.broadcast()
Broadcast(pcf) == [t \in Threads |-> Woken(pcf[t])]

Alive == halted = "no"

\* Some thread is free to make a call and gets mutex_ at once.  A call that
\* runs from Mutex::Lock to its return in one piece leaves no trace of the
\* thread that made it.
CanCall == Alive /\ mutex_ = "none" /\ {t \in Threads : pc[t] = "idle"} # {}

\* ------------------------------------------------- the host address table
\* An address is a 32-bit word, written as its four bytes, the most
\* significant first.
ToBytes(n) ==
  <<(n \div 16777216) % 256, (n \div 65536) % 256, (n \div 256) % 256, n % 256>>

\* htonl on the little-endian targets of the build: the bytes reversed.
htonl(b) == <<b[4], b[3], b[2], b[1]>>

\* first_unused_addr_ starts here.
kFirstAddr == 0

\* 0x7F000001
Loopback == <<127, 0, 0, 1>>

\* m with key k set to v, as std::map's operator[] assignment does.
MapPut(m, k, v) == [x \in DOMAIN m \cup {k} |-> IF x = k THEN v ELSE m[x]]

NoHosts == [hosts |-> <<>>, addrs |-> <<>>]

\* AddHostAddress(name, addr) on the pair of maps h.
AddHostAddress(h, name, addr) ==
  [hosts |-> MapPut(h.hosts, name, htonl(addr)),
   addrs |-> MapPut(h.addrs, htonl(addr), name)]

\* The maps the constructor leaves.
SeededHosts == AddHostAddress(NoHosts, "localhost", Loopback)

InitHosts ==
  /\ hosts_ = SeededHosts.hosts
  /\ addrs_ = SeededHosts.addrs
  /\ first_unused_addr_ = kFirstAddr

\* ---------------------------------------------------------------- Init
Init ==
  /\ streams_ = [fd \in {0, 1, 2} |-> JsFile(fd)]
  /\ paths_ = {"/dev/null", "/dev/tty", "/dev/random"}
  /\ ppfs_ = "NULL"
  /\ \E pending \in BOOLEAN :
       /\ fs_initialized_ = ~pending
       /\ cb = [run |-> "none", onopen |-> pending, todo |-> {},
                md |-> {}, omd |-> {}]
  /\ mutex_ = "none"
  /\ pc = [t \in Threads |-> "idle"]
  /\ loc = [t \in Threads |-> LocIdle]
  /\ ready = {}
  /\ ndebug \in BOOLEAN
  /\ halted = "no"
  /\ last = [op |-> "none", err |-> "OK"]
  /\ InitHosts

\* The state once the storage open has completed with PP_OK.
InitOpened ==
  /\ streams_ = [fd \in {0, 1, 2} |-> JsFile(fd)]
  /\ paths_ = {"/dev/null", "/dev/tty", "/dev/random", KnownHosts}
  /\ ppfs_ = "fs"
  /\ fs_initialized_ = TRUE
  /\ cb = [run |-> "none", onopen |-> FALSE, todo |-> {}, md |-> {}, omd |-> {}]
  /\ mutex_ = "none"
  /\ pc = [t \in Threads |-> "idle"]
  /\ loc = [t \in Threads |-> LocIdle]
  /\ ready = {}
  /\ ndebug \in BOOLEAN
  /\ halted = "no"
  /\ last = [op |-> "none", err |-> "OK"]
  /\ InitHosts

\* What a finished call leaves: the table, the fate of the process, the return.
Finish(r, ret) ==
  /\ streams_' = r.tbl
  /\ halted' = r.halt
  /\ last' = IF r.halt = "no" THEN ret ELSE [op |-> ret.op, err |-> "DIED"]

\* ---------------------------------------------------------------- close
\* A close that forgets to look the descriptor up first.
CloseUnchecked(fd) ==
  /\ CanCall
  /\ Finish(RemoveFileStream(Run0, fd), [op |-> "close", err |-> "OK"])
  /\ UNCHANGED <<netvars, paths_, ppfs_, fs_initialized_, mutex_, pc, loc, cb, ready, ndebug>>

Close(fd) ==
  /\ CanCall
  /\ IF ~IsKnowDescriptor(fd)
     THEN Finish(Run0, [op |-> "close", err |-> "EBADF"])
     ELSE Finish(RemoveFileStream(Run0, fd), [op |-> "close", err |-> "OK"])
  /\ UNCHANGED <<netvars, paths_, ppfs_, fs_initialized_, mutex_, pc, loc, cb, ready, ndebug>>

\* ------------------------------------- read, write, seek, fstat, getdents
IoOps == {"read", "write", "seek", "fstat", "getdents"}

Io(op, fd) ==
  /\ CanCall
  /\ LET stream == GetStream(fd) IN
     IF IsReal(stream)
     THEN Finish(Run0, [op |-> op, err |-> "OK"])
     ELSE Finish(Run0, [op |-> op, err |-> "EBADF"])
  /\ UNCHANGED <<netvars, paths_, ppfs_, fs_initialized_, mutex_, pc, loc, cb, ready, ndebug>>

\* --------------------------------------------------------------- socket
Socket ==
  /\ CanCall
  /\ LET fd == GetFirstUnusedDescriptor IN
     /\ fd <= MaxFd
     /\ Finish(AddFileStream(Run0, fd, NULL), [op |-> "socket", fd |-> fd, err |-> "OK"])
  /\ UNCHANGED <<netvars, paths_, ppfs_, fs_initialized_, mutex_, pc, loc, cb, ready, ndebug>>

\* -------------------------------------------------------------- connect
\* A connect that binds the socket before it tries the connection.
ConnectBindsFirst(fd, backendOk) ==
  /\ CanCall
  /\ IF ~IsKnowDescriptor(fd)
     THEN Finish(Run0, [op |-> "connect", err |-> "EBADF", socket |-> "none"])
     ELSE Finish(AddFileStream(Run0, fd, TCPSocket(fd)),
                 [op |-> "connect", err |-> IF backendOk THEN "OK" ELSE "ECONNREFUSED",
                  socket |-> "bound"])
  /\ UNCHANGED <<netvars, paths_, ppfs_, fs_initialized_, mutex_, pc, loc, cb, ready, ndebug>>

\* backendOk: whether TCPSocket::connect succeeds.  socket: what became of
\* the TCPSocket of the call: "none" constructed, "released", or "bound".
Connect(fd, backendOk) ==
  /\ CanCall
  /\ IF ~IsKnowDescriptor(fd)
     THEN Finish(Run0, [op |-> "connect", err |-> "EBADF", socket |-> "none"])
     ELSE IF ~backendOk
     THEN Finish(Run0, [op |-> "connect", err |-> "ECONNREFUSED", socket |-> "released"])
     ELSE Finish(AddFileStream(Run0, fd, TCPSocket(fd)),
                 [op |-> "connect", err |-> "OK", socket |-> "bound"])
  /\ UNCHANGED <<netvars, paths_, ppfs_, fs_initialized_, mutex_, pc, loc, cb, ready, ndebug>>

\* ----------------------------------------------------------------- open
\* The tail of open after the handler has returned `stream` (NULL: refused).
OpenTail(r, fd, stream) ==
  IF stream = NULL
  THEN Finish(RemoveFileStream(r, fd), [op |-> "open", fd |-> fd, err |-> "EACCES"])
  ELSE Finish(AddFileStream(r, fd, stream), [op |-> "open", fd |-> fd, err |-> "OK"])

\* open on a path that is not registered, or whose handler answers at
\* once.  handlerOk: whether the handler produces a stream.
Open(path, handlerOk) ==
  /\ CanCall
  /\ path \in paths_ => ~HandlerBlocks(path)
  /\ IF path \notin paths_
     THEN Finish(Run0, [op |-> "open", fd |-> -1, err |-> "ENOENT"])
     ELSE LET fd == GetFirstUnusedDescriptor
              r1 == AddFileStream(Run0, fd, NULL) IN
          /\ fd <= MaxFd
          /\ OpenTail(r1, fd, IF handlerOk THEN HandlerStream(fd, path) ELSE NULL)
  /\ UNCHANGED <<netvars, paths_, ppfs_, fs_initialized_, mutex_, pc, loc, cb, ready, ndebug>>

\* open on a path whose handler blocks: lines 133-141, up to the wait inside
\* the handler, which releases mutex_.
OpenBlock(t, path) ==
  /\ Alive /\ mutex_ = "none" /\ pc[t] = "idle"
  /\ path \in paths_ /\ HandlerBlocks(path)
  /\ LET fd == GetFirstUnusedDescriptor
         r1 == AddFileStream(Run0, fd, NULL) IN
     /\ fd <= MaxFd
     /\ streams_' = r1.tbl
     /\ pc' = [pc EXCEPT ![t] = "open_wait"]
     /\ loc' = [loc EXCEPT ![t] = [LocIdle EXCEPT !.fd = fd, !.path = path]]
  /\ UNCHANGED <<netvars, paths_, ppfs_, fs_initialized_, mutex_, cb, ready, ndebug, halted, last>>

\* The blocked handler is completed, the caller has mutex_ again and open
\* goes on from line 142.
OpenFinish(t, handlerOk) ==
  /\ Alive /\ pc[t] = "open_wait" /\ mutex_ = "none"
  /\ OpenTail(Run0, loc[t].fd,
              IF handlerOk THEN HandlerStream(loc[t].fd, loc[t].path) ELSE NULL)
  /\ pc' = [pc EXCEPT ![t] = "idle"]
  /\ loc' = [loc EXCEPT ![t] = LocIdle]
  /\ UNCHANGED <<netvars, paths_, ppfs_, fs_initialized_, mutex_, cb, ready, ndebug>>

\* ------------------------------------------------------------------ dup
\* dupOk: whether stream->dup produces a stream.
Dup(fd, dupOk) ==
  /\ CanCall
  /\ LET stream == GetStream(fd) IN
     IF ~IsReal(stream)
     THEN Finish(Run0, [op |-> "dup", fd |-> -1, err |-> "EBADF"])
     ELSE LET newfd == GetFirstUnusedDescriptor
              r1 == AddFileStream(Run0, newfd, NULL)
              new_stream == IF dupOk THEN StreamDup(stream, newfd) ELSE NULL IN
          /\ newfd <= MaxFd
          /\ IF new_stream = NULL
             THEN Finish(RemoveFileStream(r1, newfd),
                         [op |-> "dup", fd |-> newfd, err |-> "EACCES"])
             ELSE Finish(AddFileStream(r1, newfd, new_stream),
                         [op |-> "dup", fd |-> newfd, err |-> "OK"])
  /\ UNCHANGED <<netvars, paths_, ppfs_, fs_initialized_, mutex_, pc, loc, cb, ready, ndebug>>

\* ----------------------------------------------------------------- dup2
\* What new_stream->close() on a null new_stream (line 223) can do: fault,
\* be compiled away with its branch, or run through to RemoveFileStream.
NullCallOutcomes == {"segv", "elided", "executed"}

\* The outcomes that apply to a call with target newfd ("elided" stands for
\* a call that never reaches line 223).
NullCallFor(newfd) == IF GetStream(newfd) = NULL THEN NullCallOutcomes ELSE {"elided"}

\* Lines 220-226: the branch taken when the target holds no stream.
Dup2Branch(r, new_stream, newfd, ub) ==
  IF new_stream # NULL THEN r
  ELSE CASE ub = "segv" -> [r EXCEPT !.halt = "segv"]
         [] ub = "elided" -> r
         [] OTHER -> RemoveFileStream(r, newfd)

Dup2(fd, newfd, dupOk, ub) ==
  /\ CanCall
  /\ LET stream == GetStream(fd) IN
     IF ~IsReal(stream)
     THEN Finish(Run0, [op |-> "dup2", err |-> "EBADF"])
     ELSE LET r1 == Dup2Branch(Run0, GetStream(newfd), newfd, ub)
              r2 == AddFileStream(r1, newfd, NULL)
              new_stream == IF dupOk THEN StreamDup(stream, newfd) ELSE NULL
              r3 == AddFileStream(r2, newfd, new_stream) IN
          IF new_stream = NULL
          THEN Finish(r2, [op |-> "dup2", err |-> "EACCES"])
          ELSE Finish(r3, [op |-> "dup2", err |-> "OK"])
  /\ UNCHANGED <<netvars, paths_, ppfs_, fs_initialized_, mutex_, pc, loc, cb, ready, ndebug>>

\* -------------------------------------------------------- gethostbyname
\* A counter that does not move.
NextAddrStuck(n) == n

\* first_unused_addr_++
NextAddr(n) == n + 1

HostNames == {"localhost", "a.example", "b.example", "c.example", "d.example"}

gethostbyname(name) ==
  /\ CanCall
  /\ IF name \in DOMAIN hosts_
     THEN /\ last' = [op |-> "gethostbyname", name |-> name, addr |-> hosts_[name],
                      err |-> "OK"]
          /\ UNCHANGED netvars
     ELSE LET addr == htonl(ToBytes(first_unused_addr_)) IN
          /\ first_unused_addr_' = NextAddr(first_unused_addr_)
          /\ hosts_' = MapPut(hosts_, name, addr)
          /\ addrs_' = MapPut(addrs_, addr, name)
          /\ last' = [op |-> "gethostbyname", name |-> name, addr |-> addr,
                      err |-> "OK"]
  /\ UNCHANGED <<streams_, paths_, ppfs_, fs_initialized_, mutex_, pc, loc, cb,
                 ready, ndebug, halted>>

\* ------------------------------------------------------------ readiness
\* The readiness bits that change while the model runs: data to read for
\* a JsFile and for a TCPSocket.
ReadyBits == {<<"js", "r">>, <<"tcp", "r">>}

\* (stream->*is_ready)() for is_read_ready ("r"), is_write_ready ("w") and
\* is_exception ("e").  A file is always readable; every stream is
\* writable and none has an exceptional condition.
StreamReady(stream, which) ==
  IF <<stream.kind, which>> \in ReadyBits THEN <<stream.kind, which>> \in ready
  ELSE CASE which = "r" -> stream.kind = "file"
         [] which = "w" -> TRUE
         [] OTHER -> FALSE

\* A backend reports a change of readiness: under mutex_, with a broadcast.
ReadyChange(bit) ==
  /\ Alive /\ mutex_ = "none"
  /\ ready' = IF bit \in ready THEN ready \ {bit} ELSE ready \cup {bit}
  /\ pc' = Broadcast(pc)
  /\ UNCHANGED <<netvars, streams_, paths_, ppfs_, fs_initialized_, mutex_, loc, cb,
                 ndebug, halted, last>>

\* pthread_cond_wait may return with no broadcast.
SpuriousWake(t) ==
  /\ Alive /\ pc[t] \in Sleeping
  /\ pc' = [pc EXCEPT ![t] = Woken(pc[t])]
  /\ UNCHANGED <<netvars, streams_, paths_, ppfs_, fs_initialized_, mutex_, loc, cb,
                 ready, ndebug, halted, last>>

\* --------------------------------------------------------------- select
\* An IsReady that takes a descriptor without a stream for one not ready.
RECURSIVE IsReadySkipping(_, _, _, _, _, _, _)
IsReadySkipping(i, nfds, isnull, bits, which, apply, nset) ==
  IF isnull THEN [ret |-> 0, bits |-> bits]
  ELSE IF i >= nfds THEN [ret |-> nset, bits |-> bits]
  ELSE IF i \notin bits
  THEN IsReadySkipping(i + 1, nfds, isnull, bits, which, apply, nset)
  ELSE LET stream == GetStream(i) IN
       IF stream # NULL /\ StreamReady(stream, which)
       THEN IF ~apply THEN [ret |-> 1, bits |-> bits]
            ELSE IsReadySkipping(i + 1, nfds, isnull, bits, which, apply, nset + 1)
       ELSE IsReadySkipping(i + 1, nfds, isnull,
                            IF apply THEN bits \ {i} ELSE bits, which, apply, nset)

\* IsReady(nfds, fds, is_ready, apply), from descriptor i on with nset
\* counted so far: what it returns and the set it leaves.
RECURSIVE IsReady(_, _, _, _, _, _, _)
IsReady(i, nfds, isnull, bits, which, apply, nset) ==
  IF isnull THEN [ret |-> 0, bits |-> bits]
  ELSE IF i >= nfds THEN [ret |-> nset, bits |-> bits]
  ELSE IF i \notin bits THEN IsReady(i + 1, nfds, isnull, bits, which, apply, nset)
  ELSE LET stream == GetStream(i) IN
       IF stream = NULL THEN [ret |-> -1, bits |-> bits]
       ELSE IF StreamReady(stream, which)
       THEN IF ~apply THEN [ret |-> 1, bits |-> bits]
            ELSE IsReady(i + 1, nfds, isnull, bits, which, apply, nset + 1)
       ELSE IsReady(i + 1, nfds, isnull, IF apply THEN bits \ {i} ELSE bits,
                    which, apply, nset)

\* The condition of the while loop (lines 330-332) is false.
MustWait(a) ==
  /\ IsReady(0, a.nfds, a.rd = {}, a.rd, "r", FALSE, 0).ret = 0
  /\ IsReady(0, a.nfds, a.wr = {}, a.wr, "w", FALSE, 0).ret = 0
  /\ IsReady(0, a.nfds, a.ex = {}, a.ex, "e", FALSE, 0).ret = 0

\* A final pass that returns the count of the read set alone.
SelectReturnReadOnly(a) ==
  LET nread == IsReady(0, a.nfds, a.rd = {}, a.rd, "r", TRUE, 0)
      nwrite == IsReady(0, a.nfds, a.wr = {}, a.wr, "w", TRUE, 0)
      nexcpt == IsReady(0, a.nfds, a.ex = {}, a.ex, "e", TRUE, 0)
      bad == nread.ret < 0 \/ nwrite.ret < 0 \/ nexcpt.ret < 0 IN
  [ret |-> IF bad THEN -1 ELSE nread.ret,
   err |-> IF bad THEN "EBADF" ELSE "OK",
   rd |-> nread.bits, wr |-> nwrite.bits, ex |-> nexcpt.bits]

\* Lines 345-352: what select returns and the sets it leaves.
SelectReturn(a) ==
  LET nread == IsReady(0, a.nfds, a.rd = {}, a.rd, "r", TRUE, 0)
      nwrite == IsReady(0, a.nfds, a.wr = {}, a.wr, "w", TRUE, 0)
      nexcpt == IsReady(0, a.nfds, a.ex = {}, a.ex, "e", TRUE, 0)
      bad == nread.ret < 0 \/ nwrite.ret < 0 \/ nexcpt.ret < 0 IN
  [ret |-> IF bad THEN -1 ELSE nread.ret + nwrite.ret + nexcpt.ret,
   err |-> IF bad THEN "EBADF" ELSE "OK",
   rd |-> nread.bits, wr |-> nwrite.bits, ex |-> nexcpt.bits]

\* A select that takes ETIMEDOUT for a failed wait.
SelectTimedOutAsError(a) ==
  [ret |-> -1, err |-> "ETIMEDOUT", rd |-> a.rd, wr |-> a.wr, ex |-> a.ex]

\* Lines 334-336: cond_.timedwait has returned ETIMEDOUT.
SelectTimedOut(a) == SelectReturn(a)

\* errno after cond_.timedwait has returned non-zero: the deadline has
\* passed, or the wait was refused for its timeout.
TimedWaitErrno(tmo) == IF tmo = "valid" THEN "ETIMEDOUT" ELSE "EINVAL"

\* Lines 337-338: cond_.timedwait has failed with another error.
SelectWaitFailed(a) ==
  [ret |-> -1, err |-> TimedWaitErrno(a.tmo), rd |-> a.rd, wr |-> a.wr, ex |-> a.ex]

\* The descriptors below nfds in the sets of a.
Watched(a) == {fd \in a.rd \cup a.wr \cup a.ex : fd < a.nfds}

\* last after a select with arguments a has returned r; waited: how the
\* call came to return ("no": without waiting).
SelectLast(r, a, waited) ==
  [op |-> "select", ret |-> r.ret, err |-> r.err, rd |-> r.rd, wr |-> r.wr,
   ex |-> r.ex, args |-> a, waited |-> waited]

\* last while a select waits: the call has returned nothing yet.
SelectWaits ==
  [op |-> "select", ret |-> 0, err |-> "WAIT", rd |-> {}, wr |-> {}, ex |-> {},
   args |-> NoSel, waited |-> "no"]

\* One turn of the loop for thread t holding mutex_, with arguments a:
\* return at once, fail on a wait that fails at once, or wait.
SelectTurn(t, a, waited) ==
  IF ~MustWait(a)
  THEN /\ last' = SelectLast(SelectReturn(a), a, waited)
       /\ pc' = [pc EXCEPT ![t] = "idle"]
       /\ loc' = [loc EXCEPT ![t] = LocIdle]
  ELSE IF a.tmo = "invalid"
  THEN /\ last' = SelectLast(SelectWaitFailed(a), a, waited)
       /\ pc' = [pc EXCEPT ![t] = "idle"]
       /\ loc' = [loc EXCEPT ![t] = LocIdle]
  ELSE /\ pc' = [pc EXCEPT ![t] = "select_sleep"]
       /\ loc' = [loc EXCEPT ![t] = [LocIdle EXCEPT !.sel = a]]
       /\ last' = SelectWaits

\* The descriptor sets the model passes: over a standard stream and the
\* first allocated descriptor, at most two members in all.
SelFds == {0, kFileIDOffset}

\* nfds: below the allocated range, or above every descriptor.
NfdsArgs == {kFileIDOffset, MaxFd + 1}

\* timeout: a null pointer, a timeval, a timeval timedwait rejects.
TmoArgs == {"none", "valid", "invalid"}

\* The arguments of a select.  An empty set is passed as a null pointer.
SelArgs ==
  {a \in [nfds : NfdsArgs, rd : SUBSET SelFds, wr : SUBSET SelFds, ex : SUBSET SelFds,
          tmo : TmoArgs] :
     Cardinality(a.rd) + Cardinality(a.wr) + Cardinality(a.ex) <= 2}

SelectCall(t, a) ==
  /\ Alive /\ mutex_ = "none" /\ pc[t] = "idle"
  /\ SelectTurn(t, a, "no")
  /\ UNCHANGED <<netvars, streams_, paths_, ppfs_, fs_initialized_, mutex_, cb, ready,
                 ndebug, halted>>

\* cond_.wait or cond_.timedwait has returned 0: the loop goes round.
SelectResume(t) ==
  /\ Alive /\ mutex_ = "none" /\ pc[t] = "select_woken"
  /\ SelectTurn(t, loc[t].sel, "woken")
  /\ UNCHANGED <<netvars, streams_, paths_, ppfs_, fs_initialized_, mutex_, cb, ready,
                 ndebug, halted>>

\* cond_.timedwait has returned ETIMEDOUT: break, then lines 345-352.
SelectTimeout(t) ==
  /\ Alive /\ mutex_ = "none" /\ pc[t] = "select_sleep"
  /\ loc[t].sel.tmo # "none" /\ TimedWaitErrno(loc[t].sel.tmo) = "ETIMEDOUT"
  /\ last' = SelectLast(SelectTimedOut(loc[t].sel), loc[t].sel, "timedout")
  /\ pc' = [pc EXCEPT ![t] = "idle"]
  /\ loc' = [loc EXCEPT ![t] = LocIdle]
  /\ UNCHANGED <<netvars, streams_, paths_, ppfs_, fs_initialized_, mutex_, cb, ready,
                 ndebug, halted>>

\* --------------------------------------------------------------- OnOpen
\* The completion of the storage open, on the main thread.  It takes no
\* lock: its stores (lines 86-87: ppfs_ and the registry; line 91: the flag)
\* are unordered for the threads that read them, so they become visible one
\* at a time in either order; cond_.broadcast() comes after both.
OnOpenStart(ok) ==
  /\ Alive /\ cb.run = "none" /\ cb.onopen
  /\ cb' = [cb EXCEPT !.run = "onopen", !.onopen = FALSE,
                      !.todo = IF ok THEN {"fs", "flag"} ELSE {"flag"}]
  /\ UNCHANGED <<netvars, streams_, paths_, ppfs_, fs_initialized_, mutex_, pc, loc,
                 ready, ndebug, halted, last>>

OnOpenWrite(w) ==
  /\ Alive /\ cb.run = "onopen" /\ w \in cb.todo
  /\ cb' = [cb EXCEPT !.todo = @ \ {w}]
  /\ IF w = "fs"
     THEN /\ ppfs_' = "fs"
          /\ paths_' = paths_ \cup {KnownHosts}
          /\ UNCHANGED fs_initialized_
     ELSE /\ fs_initialized_' = TRUE
          /\ UNCHANGED <<ppfs_, paths_>>
  /\ UNCHANGED <<netvars, streams_, mutex_, pc, loc, ready, ndebug, halted, last>>

OnOpenBroadcast ==
  /\ Alive /\ cb.run = "onopen" /\ cb.todo = {}
  /\ cb' = [cb EXCEPT !.run = "none"]
  /\ pc' = Broadcast(pc)
  /\ UNCHANGED <<netvars, streams_, paths_, ppfs_, fs_initialized_, mutex_, loc,
                 ready, ndebug, halted, last>>

\* ---------------------------------------------------------------- mkdir
\* Lines 411-425 for thread t holding mutex_, from the test of
\* fs_initialized_ on: wait for the storage, fail without it, or submit
\* MakeDirectory and wait for the result.
MkdirTurn(t) ==
  IF ~fs_initialized_
  THEN /\ pc' = [pc EXCEPT ![t] = "mkdir_wait_init"]
       /\ mutex_' = t
       /\ UNCHANGED <<loc, cb, last>>
  ELSE IF ppfs_ = "NULL"
  THEN /\ last' = [op |-> "mkdir", ret |-> -1, err |-> "NOFS"]
       /\ pc' = [pc EXCEPT ![t] = "idle"]
       /\ loc' = [loc EXCEPT ![t] = LocIdle]
       /\ mutex_' = "none"
       /\ UNCHANGED cb
  ELSE /\ cb' = [cb EXCEPT !.md = @ \cup {t}]
       /\ loc' = [loc EXCEPT ![t] = [LocIdle EXCEPT !.result = "PENDING"]]
       /\ pc' = [pc EXCEPT ![t] = "mkdir_sleep_result"]
       /\ mutex_' = "none"
       /\ UNCHANGED last

MkdirCall(t) ==
  /\ Alive /\ mutex_ = "none" /\ pc[t] = "idle"
  /\ MkdirTurn(t)
  /\ UNCHANGED <<netvars, streams_, paths_, ppfs_, fs_initialized_, ready, ndebug, halted>>

\* Line 412: cond_.wait(mutex_) releases mutex_ and waits.
MkdirWaitInit(t) ==
  /\ Alive /\ pc[t] = "mkdir_wait_init" /\ mutex_ = t
  /\ pc' = [pc EXCEPT ![t] = "mkdir_sleep_init"]
  /\ mutex_' = "none"
  /\ UNCHANGED <<netvars, streams_, paths_, ppfs_, fs_initialized_, loc, cb, ready,
                 ndebug, halted, last>>

MkdirResumeInit(t) ==
  /\ Alive /\ mutex_ = "none" /\ pc[t] = "mkdir_woken_init"
  /\ MkdirTurn(t)
  /\ UNCHANGED <<netvars, streams_, paths_, ppfs_, fs_initialized_, ready, ndebug, halted>>

\* Lines 423-425: the wait for the result slot has returned.
MkdirResumeResult(t) ==
  /\ Alive /\ mutex_ = "none" /\ pc[t] = "mkdir_woken_result"
  /\ IF loc[t].result = "PENDING"
     THEN /\ pc' = [pc EXCEPT ![t] = "mkdir_sleep_result"]
          /\ UNCHANGED <<loc, last>>
     ELSE /\ last' = [op |-> "mkdir", ret |-> IF loc[t].result = "OK" THEN 0 ELSE -1,
                      err |-> loc[t].result]
          /\ pc' = [pc EXCEPT ![t] = "idle"]
          /\ loc' = [loc EXCEPT ![t] = LocIdle]
  /\ UNCHANGED <<netvars, streams_, paths_, ppfs_, fs_initialized_, mutex_, cb, ready,
                 ndebug, halted>>

\* What MakeDirectoryIncludingAncestors returns at once: the request is
\* under way, or it is rejected.
SyncResults == {"PENDING", "BADARGUMENT"}

\* What the completion of the request reports.
AsyncResults == {"OK", "FAILED"}

\* A MakeDirectory that tells nobody of a request rejected at once.
MakeDirectorySilent(t, res) ==
  /\ Alive /\ mutex_ = "none" /\ cb.run = "none" /\ t \in cb.md
  /\ IF res = "PENDING"
     THEN /\ cb' = [cb EXCEPT !.md = @ \ {t}, !.omd = @ \cup {t}]
          /\ UNCHANGED <<loc, pc>>
     ELSE /\ cb' = [cb EXCEPT !.md = @ \ {t}]
          /\ UNCHANGED <<loc, pc>>
  /\ UNCHANGED <<netvars, streams_, paths_, ppfs_, fs_initialized_, mutex_, ready,
                 ndebug, halted, last>>

\* MakeDirectory on the main thread, under mutex_, for the mkdir of thread
\* t.  res: what MakeDirectoryIncludingAncestors returns.
MakeDirectory(t, res) ==
  /\ Alive /\ mutex_ = "none" /\ cb.run = "none" /\ t \in cb.md
  /\ IF res = "PENDING"
     THEN /\ cb' = [cb EXCEPT !.md = @ \ {t}, !.omd = @ \cup {t}]
          /\ UNCHANGED <<loc, pc>>
     ELSE /\ cb' = [cb EXCEPT !.md = @ \ {t}]
          /\ loc' = [loc EXCEPT ![t].result = res]
          /\ pc' = Broadcast(pc)
  /\ UNCHANGED <<netvars, streams_, paths_, ppfs_, fs_initialized_, mutex_, ready,
                 ndebug, halted, last>>

\* OnMakeDirectory on the main thread, under mutex_.
OnMakeDirectory(t, res) ==
  /\ Alive /\ mutex_ = "none" /\ cb.run = "none" /\ t \in cb.omd
  /\ cb' = [cb EXCEPT !.omd = @ \ {t}]
  /\ loc' = [loc EXCEPT ![t].result = res]
  /\ pc' = Broadcast(pc)
  /\ UNCHANGED <<netvars, streams_, paths_, ppfs_, fs_initialized_, mutex_, ready,
                 ndebug, halted, last>>

\* ------------------------------------------------- the descriptor table
\* Every table call, from the state in which the blocking handler is
\* registered.
NextTable ==
  \/ \E fd \in FdArgs : Close(fd)
  \/ \E op \in IoOps, fd \in FdArgs : Io(op, fd)
  \/ Socket
  \/ \E fd \in AllocFds, ok \in BOOLEAN : Connect(fd, ok)
  \/ \E path \in PathArgs, ok \in BOOLEAN : Open(path, ok)
  \/ \E t \in Waiters, path \in PathArgs : OpenBlock(t, path)
  \/ \E t \in Waiters, ok \in BOOLEAN : OpenFinish(t, ok)
  \/ \E fd \in FdArgs, ok \in BOOLEAN : Dup(fd, ok)
  \/ \E fd \in FdArgs, newfd \in AllocFds, ok \in BOOLEAN :
       \E ub \in NullCallFor(newfd) : Dup2(fd, newfd, ok, ub)

SpecTable == InitOpened /\ [][NextTable]_vars
\* --------------------------------------------------------------- select
\* select of one thread against the calls of the others that change what
\* it waits for, and the backends' readiness.
NextSelect ==
  \/ \E t \in Waiters, a \in SelArgs : SelectCall(t, a)
  \/ \E t \in Waiters : SelectResume(t)
  \/ \E t \in Waiters : SelectTimeout(t)
  \/ \E t \in Waiters : SpuriousWake(t)
  \/ \E bit \in ReadyBits : ReadyChange(bit)
  \/ \E fd \in SelFds : Close(fd)
  \/ Socket
  \/ \E fd \in SelFds \cap AllocFds, ok \in BOOLEAN : Connect(fd, ok)

SpecSelect == InitOpened /\ [][NextSelect]_vars

\* Once the deadline has passed every timedwait returns ETIMEDOUT, and a
\* woken thread resumes when it gets mutex_.
SpecSelectFair ==
  /\ SpecSelect
  /\ \A t \in Waiters : SF_vars(SelectTimeout(t)) /\ WF_vars(SelectResume(t))

\* ----------------------------------------------------------- the bridge
\* mkdir against the completion callbacks of the main thread.
NextBridge ==
  \/ \E t \in Waiters : MkdirCall(t)
  \/ \E t \in Waiters : MkdirWaitInit(t)
  \/ \E t \in Waiters : MkdirResumeInit(t)
  \/ \E t \in Waiters : MkdirResumeResult(t)
  \/ \E t \in Waiters : SpuriousWake(t)
  \/ \E t \in Waiters, res \in SyncResults : MakeDirectory(t, res)
  \/ \E t \in Waiters, res \in AsyncResults : OnMakeDirectory(t, res)
  \/ \E ok \in BOOLEAN : OnOpenStart(ok)
  \/ \E w \in {"fs", "flag"} : OnOpenWrite(w)
  \/ OnOpenBroadcast

SpecBridge == Init /\ [][NextBridge]_vars

\* A thread that cond_.wait has let go runs on once it gets mutex_, a
\* thread that holds mutex_ runs on to its wait, and the main thread runs
\* the completion of the storage open to its end.
SpecBridgeFair ==
  /\ SpecBridge
  /\ WF_vars(\E ok \in BOOLEAN : OnOpenStart(ok))
  /\ WF_vars(\E w \in {"fs", "flag"} : OnOpenWrite(w))
  /\ WF_vars(OnOpenBroadcast)
  /\ \A t \in Waiters :
       /\ WF_vars(MkdirWaitInit(t))
       /\ WF_vars(MkdirResumeInit(t))
       /\ WF_vars(MkdirResumeResult(t))

\* ------------------------------------------------- the host address table
NextHosts == \E name \in HostNames : gethostbyname(name)

SpecHosts == InitOpened /\ [][NextHosts]_vars

\* ======================================================= the claims
\* fd is the smallest integer >= kFileIDOffset that tbl does not hold.
SmallestFree(fd, tbl) ==
  /\ fd >= kFileIDOffset
  /\ fd \notin DOMAIN tbl
  /\ \A k \in kFileIDOffset .. (fd - 1) : k \in DOMAIN tbl

\* The step hands out fd: socket, a successful open or dup, or the
\* reservation of an open whose handler blocks.
AllocStep(fd) ==
  \/ Socket /\ last'.fd = fd
  \/ \E path \in PathArgs, ok \in BOOLEAN :
       Open(path, ok) /\ last'.err = "OK" /\ last'.fd = fd
  \/ \E src \in FdArgs, ok \in BOOLEAN :
       Dup(src, ok) /\ last'.err = "OK" /\ last'.fd = fd
  \/ \E t \in Waiters, path \in PathArgs : OpenBlock(t, path) /\ loc'[t].fd = fd

\* C1: every descriptor an allocation (open, dup, socket) hands out is the
\* smallest integer >= kFileIDOffset absent from the table at that moment:
\* it is not in the table when handed out, and it is never 0, 1 or 2.
C1_SmallestFree ==
  [][\A fd \in 0 .. MaxFd :
       AllocStep(fd) => SmallestFree(fd, streams_) /\ fd \notin {0, 1, 2}]_vars

\* C1 witness: an allocation returned kFileIDOffset while the next
\* descriptor is in use and descriptor 0 is free.
C1_Witness ==
  /\ last.op \in {"open", "dup", "socket"} /\ last.err = "OK"
  /\ last.fd = kFileIDOffset
  /\ (kFileIDOffset + 1) \in DOMAIN streams_
  /\ 0 \notin DOMAIN streams_

\* C2: dup2(fd, newfd) with fd bound to a real stream and newfd occupied
\* (newfd = fd included) completes with newfd bound to one stream on the
\* resource of the source.
C2_Dup2OntoOccupied ==
  [][\A fd \in FdArgs, newfd \in AllocFds :
       (/\ Dup2(fd, newfd, TRUE, "elided")
        /\ IsReal(GetStream(fd)) /\ IsReal(GetStream(newfd)))
       => /\ halted' = "no"
          /\ last'.err = "OK"
          /\ newfd \in DOMAIN streams_'
          /\ IsReal(streams_'[newfd])
          /\ streams_'[newfd].kind = streams_[fd].kind
          /\ streams_'[newfd].res = streams_[fd].res]_vars

\* C3: every successful close and every bind of a descriptor (here, by
\* connect) broadcasts: each thread waiting on cond_ is woken by the step.
C3_TableChangeBroadcasts ==
  [][((\E fd \in SelFds : Close(fd)) \/ (\E fd \in AllocFds : Connect(fd, TRUE)))
     /\ last'.err = "OK"
     => \A t \in Threads : pc[t] \in Sleeping => pc'[t] = Woken(pc[t])]_vars

\* C4: no completion callback writes shared state while a thread is inside
\* a critical section of mutex_.
C4_CallbacksSerialized ==
  ~(cb.run = "onopen" /\ \E t \in Threads : mutex_ = t)

\* Every descriptor select watches for a is bound and none is ready.
BoundNoneReady(a) ==
  /\ \A fd \in Watched(a) : GetStream(fd) # NULL
  /\ MustWait(a)

\* C5: a select with a timeout whose descriptors are bound and not ready
\* does not wait for ever: it returns (unless the process has died), and
\* when the deadline ends the wait it returns 0, no error, with every
\* descriptor it watched cleared from the three sets.
C5_TimeoutReturnsZero ==
  /\ [][\A t \in Waiters :
          (SelectTimeout(t) /\ BoundNoneReady(loc[t].sel))
          => /\ last'.ret = 0 /\ last'.err = "OK"
             /\ (last'.rd \cup last'.wr \cup last'.ex) \cap Watched(loc[t].sel) = {}]_vars
  /\ \A t \in Waiters :
       (pc[t] = "select_sleep" /\ loc[t].sel.tmo = "valid")
         ~> (pc[t] = "idle" \/ ~Alive)

\* C5 witness: a select that watched a descriptor returned 0 on its
\* deadline while that descriptor is bound and not ready to read.
C5_Witness ==
  /\ last.op = "select" /\ last.waited = "timedout"
  /\ last.ret = 0 /\ last.err = "OK"
  /\ 0 \in last.args.rd /\ last.args.nfds > 0
  /\ GetStream(0) # NULL /\ ~StreamReady(GetStream(0), "r")

\* Some set of a holds a descriptor below nfds that has no stream.
HasUnbound(a) == \E fd \in Watched(a) : GetStream(fd) = NULL

\* The arguments of the select that thread t calls in this step, if any:
\* those of the return the step records, or those the thread waits with.
CalledWith(t) ==
  (IF last'.op = "select" /\ last'.err # "WAIT" THEN {last'.args} ELSE {})
  \cup (IF pc'[t] = "select_sleep" THEN {loc'[t].sel} ELSE {})

\* C6: a select with a descriptor below nfds that has no stream, in any of
\* its sets, returns -1 with EBADF in the step of the call, without
\* waiting, whatever else the sets hold and whatever the timeout.
C6_UnboundIsEBADF ==
  [][\A t \in Waiters : \A a \in CalledWith(t) :
       (SelectCall(t, a) /\ HasUnbound(a))
       => /\ pc'[t] = "idle"
          /\ last'.op = "select" /\ last'.ret = -1 /\ last'.err = "EBADF"
          /\ last'.waited = "no"]_vars

\* C6 witness: a select returned EBADF without waiting, having watched
\* both a descriptor with a stream that is kept in a set and one reserved
\* by socket().
C6_Witness ==
  /\ last.op = "select" /\ last.err = "EBADF" /\ last.waited = "no"
  /\ Watched(last.args) = SelFds
  /\ 0 \in last.rd \cup last.wr /\ GetStream(0) # NULL
  /\ kFileIDOffset \in DOMAIN streams_ /\ streams_[kFileIDOffset] = NULL

\* C7: once socket() has returned fd, read and write on fd fail with EBADF
\* and fd gets a stream only from connect (a dup2 onto fd aside); a
\* successful connect binds fd to the network stream.
C7_SocketUntilConnect ==
  [][/\ \A fd \in AllocFds :
          (last.op = "socket" /\ last.fd = fd)
          => /\ \A op \in {"read", "write"} : Io(op, fd) => last'.err = "EBADF"
             /\ (fd \in DOMAIN streams_' /\ IsReal(streams_'[fd]))
                => last'.op \in {"connect", "dup2"}
     /\ \A fd \in AllocFds :
          (Connect(fd, TRUE) /\ last'.err = "OK") => streams_'[fd] = TCPSocket(fd)]_vars

\* C8: a failing open leaves the table as it was: ENOENT reserves nothing,
\* EACCES removes the descriptor the call had reserved and nothing else.
C8_FailingOpen ==
  [][/\ \A path \in PathArgs, ok \in BOOLEAN :
          (Open(path, ok) /\ (path \notin paths_ \/ ~ok))
          => /\ streams_' = streams_
             /\ last'.err = IF path \notin paths_ THEN "ENOENT" ELSE "EACCES"
     /\ \A t \in Waiters :
          OpenFinish(t, FALSE)
          => /\ last'.err = "EACCES"
             /\ loc[t].fd \in DOMAIN streams_ /\ streams_[loc[t].fd] = NULL
             /\ streams_' = Erase(streams_, loc[t].fd)]_vars

\* C9: after a successful close(fd), fd is absent; read, write, seek, fstat
\* and getdents on a descriptor that holds no stream fail with EBADF and
\* leave the table alone; and a descriptor that holds no stream gets one
\* only from a successful open, dup, dup2 or connect.
C9_ClosedIsBad ==
  [][/\ \A fd \in FdArgs :
          (Close(fd) /\ last'.err = "OK") => fd \notin DOMAIN streams_'
     /\ \A op \in IoOps, fd \in FdArgs :
          (Io(op, fd) /\ GetStream(fd) \in {NULL, kBadFileStream})
          => last'.err = "EBADF" /\ streams_' = streams_
     /\ \A fd \in FdArgs :
          (/\ fd \notin DOMAIN streams_ \/ streams_[fd] = NULL
           /\ fd \in DOMAIN streams_' /\ streams_'[fd] # NULL)
          => last'.op \in {"open", "dup", "dup2", "connect"} /\ last'.err = "OK"]_vars

\* C9 witness: a write failed with EBADF when none of the descriptors it
\* can be made on is in the table, descriptor 0 having been closed.
C9_Witness ==
  /\ last.op = "write" /\ last.err = "EBADF"
  /\ FdArgs \cap DOMAIN streams_ = {}

\* C10: close on a descriptor absent from the table returns EBADF and
\* changes nothing, so repeating it gives the same error and table.
C10_CloseAbsent ==
  [][\A fd \in FdArgs :
       (Close(fd) /\ fd \notin DOMAIN streams_)
       => last'.err = "EBADF" /\ streams_' = streams_ /\ halted' = "no"]_vars

\* C10 witness: a close returned EBADF on a table from which descriptor 0
\* had been closed before.
C10_Witness ==
  /\ last.op = "close" /\ last.err = "EBADF"
  /\ 0 \notin DOMAIN streams_

\* C11: the two maps are inverses of each other (the reverse lookup of a
\* resolved name's address is that name, so no two names share an
\* address), localhost included, and resolving a known name returns the
\* address it already has and changes neither map.
C11_HostMapsInverse ==
  /\ [](/\ \A name \in DOMAIN hosts_ :
             hosts_[name] \in DOMAIN addrs_ /\ addrs_[hosts_[name]] = name
        /\ \A a \in DOMAIN addrs_ :
             addrs_[a] \in DOMAIN hosts_ /\ hosts_[addrs_[a]] = a
        /\ \A n1, n2 \in DOMAIN hosts_ : hosts_[n1] = hosts_[n2] => n1 = n2
        /\ "localhost" \in DOMAIN hosts_ /\ hosts_["localhost"] = htonl(Loopback))
  /\ [][\A name \in HostNames :
          (gethostbyname(name) /\ name \in DOMAIN hosts_)
          => /\ last'.addr = hosts_[name]
             /\ hosts_' = hosts_ /\ addrs_' = addrs_]_vars

\* C11 witness: with two synthetic addresses handed out, the first name
\* has been resolved again and got the address it had.
C11_Witness ==
  /\ {"a.example", "b.example"} \subseteq DOMAIN hosts_
  /\ first_unused_addr_ = kFirstAddr + 2
  /\ last.op = "gethostbyname" /\ last.name = "a.example"
  /\ last.addr = htonl(ToBytes(kFirstAddr)) /\ hosts_["b.example"] # last.addr

\* C12: while the open of a thread waits in its handler with descriptor fd
\* reserved, no allocation (open, dup, socket) hands fd out.
C12_ReservedNotReallocated ==
  [][\A t \in Waiters, fd \in AllocFds :
       (pc[t] = "open_wait" /\ loc[t].fd = fd) => ~AllocStep(fd)]_vars

\* C13: dup2(fd, newfd) with fd bound to a real stream and newfd absent
\* from the table returns 0, leaves newfd bound to a duplicate of the
\* stream of fd and leaves the binding of fd as it was.
C13_Dup2OntoFree ==
  [][\A fd \in FdArgs, newfd \in AllocFds, ub \in NullCallOutcomes :
       (/\ Dup2(fd, newfd, TRUE, ub)
        /\ IsReal(GetStream(fd)) /\ newfd \notin DOMAIN streams_)
       => /\ halted' = "no"
          /\ last'.op = "dup2" /\ last'.err = "OK"
          /\ newfd \in DOMAIN streams_'
          /\ streams_'[newfd] = StreamDup(streams_[fd], newfd)
          /\ fd \in DOMAIN streams_' /\ streams_'[fd] = streams_[fd]]_vars

\* The step is one in which the select of thread t returns.
SelectReturns(t) ==
  /\ last'.op = "select" /\ last'.err # "WAIT"
  /\ SelectCall(t, last'.args) \/ SelectResume(t) \/ SelectTimeout(t)

\* The members below nfds of the set `bits` of a select with arguments a
\* whose stream is ready for `which` in the state the step ends in.
ReadyMembers(a, bits, which) ==
  {fd \in bits : /\ fd < a.nfds
                 /\ (GetStream(fd) # NULL /\ StreamReady(GetStream(fd), which))'}

\* The members of `bits` that IsReady never looks at.
Beyond(a, bits) == {fd \in bits : fd >= a.nfds}

\* C14: when select returns n >= 0, each set holds, of its members below
\* nfds on entry, exactly those whose stream is ready at the return, the
\* others are cleared, and n is the number of members left below nfds in
\* the three sets together.
C14_ExactlyReadyRemain ==
  [][\A t \in Waiters :
       (SelectReturns(t) /\ last'.ret >= 0)
       => LET a == last'.args IN
          /\ last'.err = "OK"
          /\ last'.rd = ReadyMembers(a, a.rd, "r") \cup Beyond(a, a.rd)
          /\ last'.wr = ReadyMembers(a, a.wr, "w") \cup Beyond(a, a.wr)
          /\ last'.ex = ReadyMembers(a, a.ex, "e") \cup Beyond(a, a.ex)
          /\ last'.ret = Cardinality(ReadyMembers(a, a.rd, "r"))
                         + Cardinality(ReadyMembers(a, a.wr, "w"))
                         + Cardinality(ReadyMembers(a, a.ex, "e"))]_vars

\* C14 witness: a select on descriptor 0 for reading and writing returned 1
\* with the read set cleared and the write set kept.
C14_Witness ==
  /\ last.op = "select" /\ last.ret = 1 /\ last.err = "OK"
  /\ last.args.rd = {0} /\ last.rd = {}
  /\ last.args.wr = {0} /\ last.wr = {0}
  /\ last.args.nfds > 0

\* C15: a select that fails for a descriptor without a stream returns -1
\* with EBADF and leaves its three sets as they were on entry.
C15_FailureClearsNothing ==
  [][\A t \in Waiters :
       (SelectReturns(t) /\ HasUnbound(last'.args))
       => /\ last'.ret = -1 /\ last'.err = "EBADF"
          /\ last'.rd = last'.args.rd
          /\ last'.wr = last'.args.wr
          /\ last'.ex = last'.args.ex]_vars

\* C16: a connect the backend refuses returns ECONNREFUSED, releases the
\* socket it constructed and leaves the table as it was; a connect on a
\* descriptor absent from the table returns EBADF and constructs none.
C16_ConnectFailure ==
  [][\A fd \in AllocFds :
       /\ (Connect(fd, FALSE) /\ fd \in DOMAIN streams_)
          => /\ last'.err = "ECONNREFUSED" /\ last'.socket = "released"
             /\ streams_' = streams_ /\ halted' = "no"
       /\ \A ok \in BOOLEAN :
            (Connect(fd, ok) /\ fd \notin DOMAIN streams_)
            => /\ last'.err = "EBADF" /\ last'.socket = "none"
               /\ streams_' = streams_ /\ halted' = "no"]_vars

\* C16 witness: a connect was refused and the only descriptor in the
\* allocated range that is in the table is still reserved.
C16_Witness ==
  /\ last.op = "connect" /\ last.err = "ECONNREFUSED" /\ last.socket = "released"
  /\ AllocFds \cap DOMAIN streams_ = {kFileIDOffset}
  /\ streams_[kFileIDOffset] = NULL

\* The step is one in which the mkdir of thread t returns.
MkdirReturns(t) ==
  /\ pc'[t] = "idle"
  /\ MkdirCall(t) \/ MkdirResumeInit(t) \/ MkdirResumeResult(t)

\* C17: mkdir returns only with its result slot filled, 0 for PP_OK and -1
\* otherwise; a request MakeDirectory sees rejected at once fills the slot
\* and wakes the waiting mkdir, which then returns -1; and a mkdir that
\* finds the storage initialized without a handle returns -1 and submits
\* no request.
C17_MkdirResult ==
  /\ [][\A t \in Waiters :
          /\ (MkdirReturns(t) /\ pc[t] = "mkdir_woken_result")
             => /\ loc[t].result \in (SyncResults \cup AsyncResults) \ {"PENDING"}
                /\ last'.op = "mkdir" /\ last'.err = loc[t].result
                /\ last'.ret = IF loc[t].result = "OK" THEN 0 ELSE -1
          /\ \A res \in SyncResults \ {"PENDING"} :
               MakeDirectory(t, res)
               => /\ loc'[t].result = res
                  /\ pc'[t] \notin Sleeping
                  /\ t \notin cb'.md \cup cb'.omd
          /\ ((MkdirCall(t) \/ MkdirResumeInit(t)) /\ fs_initialized_ /\ ppfs_ = "NULL")
             => /\ pc'[t] = "idle" /\ last'.op = "mkdir" /\ last'.ret = -1
                /\ cb' = cb]_vars
  /\ \A t \in Waiters :
       (loc[t].result \in SyncResults \ {"PENDING"})
         ~> (pc[t] = "idle" /\ last.op = "mkdir" /\ last.ret = -1)

\* C17 witness: a mkdir returned -1 on a request that MakeDirectory saw
\* rejected at once, with no completion outstanding.
C17_Witness ==
  /\ last.op = "mkdir" /\ last.ret = -1 /\ last.err = "BADARGUMENT"
  /\ ppfs_ = "fs" /\ cb.md = {} /\ cb.omd = {}
  /\ \A t \in Waiters : pc[t] = "idle"

\* Where a mkdir is while it waits for the storage to be initialized.
InitWait == {"mkdir_wait_init", "mkdir_sleep_init", "mkdir_woken_init"}

\* C19: a mkdir that has found the storage not initialized gets past its
\* wait once OnOpen has run: no wakeup is lost.
C19_InitWaitEnds ==
  \A t \in Waiters : (pc[t] = "mkdir_wait_init") ~> (pc[t] \notin InitWait)

\* C18: no call reaches AddFileStream(fd, ...) while the slot of fd holds
\* a stream: not connect, not dup2, not the open that resumes from its
\* handler (socket, dup and an open in one piece add a descriptor the
\* allocator has just found absent).
C18_AddFileStreamPre ==
  [][\A fd \in AllocFds :
       (fd \in DOMAIN streams_ /\ streams_[fd] # NULL)
       => /\ ~Connect(fd, TRUE)
          /\ \A src \in FdArgs, ok \in BOOLEAN :
               ~(Dup2(src, fd, ok, "elided") /\ IsReal(GetStream(src)))
          /\ \A t \in Waiters : ~(OpenFinish(t, TRUE) /\ loc[t].fd = fd)]_vars

\* C20: a dup or a dup2 that returns EBADF or EACCES leaves the table as
\* it was before the call.
C20_FailedDupFrame ==
  [][/\ \A fd \in FdArgs, ok \in BOOLEAN :
          (Dup(fd, ok) /\ last'.err \in {"EBADF", "EACCES"})
          => streams_' = streams_
     /\ \A fd \in FdArgs, newfd \in AllocFds, ok \in BOOLEAN, ub \in NullCallOutcomes :
          (Dup2(fd, newfd, ok, ub) /\ last'.err \in {"EBADF", "EACCES"})
          => streams_' = streams_]_vars
====
